---- MODULE Spec2Model ----
(***************************************************************************)
(* Ingestion worker of the SMS procurement manager: the scheduling loop    *)
(* (runloop.py), one ingestion cycle (cli.py ingest_once), the mailbox     *)
(* fetch with its retry policy (email_ingest.py fetch_messages), and the   *)
(* per-row write path (cli.py upsert_offer) over the relational store.     *)
(*                                                                         *)
(* Text values are sequences of one-character strings so that upper-casing *)
(* and column-length checks are computed, not assumed.  A NULL or empty    *)
(* text is the empty sequence (Python treats both as falsy).               *)
(***************************************************************************)
EXTENDS Integers, Sequences, FiniteSets, TLC

(* ------------------------------ bounds --------------------------------- *)
\* number of messages the mailbox ever holds
MaxMsgs == 2
\* number of store writes of offers (each write reads datetime.now once)
MaxClock == 3

\* number of attachments of a message in a parse call
MaxAttachments == 2
\* number of consecutive cycles run over one mailbox
MaxCycles == 3
\* number of messages of a folder, deleted ones included, in a fetch call
MaxFolder == 4
\* largest limit passed to a fetch call
MaxLimit == 3

(* ------------------------- program constants --------------------------- *)
\* tenacity stop_after_attempt(3)
MaxAttempts == 3
\* offers_current.currency is String(8) in the worker's schema
CurrencyColLen == 8
\* INGEST_LIMIT default of the scheduling loop
LIMIT == 50

(* ------------------------------ values --------------------------------- *)
EUR == <<"E", "U", "R">>
eur == <<"e", "u", "r">>
USD == <<"U", "S", "D">>
\* a currency text longer than the column: the store rejects the write
EUROPEANS == <<"E", "U", "R", "O", "P", "E", "A", "N", "S">>
NullText == <<>>

\* str.upper(), on the letters that occur in the model's texts
UpperChar(c) ==
    CASE c = "e" -> "E" [] c = "u" -> "U" [] c = "r" -> "R"
      [] c = "s" -> "S" [] c = "d" -> "D" [] OTHER -> c

Upper(s) == [i \in DOMAIN s |-> UpperChar(s[i])]

\* x or "EUR"
OrEUR(s) == IF s = NullText THEN EUR ELSE s

\* a Python float: either NaN or a number, counted in hundredths (the price
\* texts of the model have at most two decimals)
Num(n) == [nan |-> FALSE, val |-> n]
NaN == [nan |-> TRUE, val |-> 0]

\* float.__eq__ : NaN is equal to nothing, itself included
FloatEq(a, b) == ~a.nan /\ ~b.nan /\ a.val = b.val

\* price cells of the spreadsheets: read as text (dtype=str)
Prices == {<<"1">>, <<"2">>, <<"N", "a", "N">>}
RawCurrencies == {eur, USD, EUROPEANS}

MccMncs == {<<"2", "0", "2", "0", "1">>, <<"2", "0", "2", "1", "0">>}

BaseRow ==
    [username |-> <<"c", "1">>, mccmnc |-> <<"2", "0", "2", "0", "1">>,
     price |-> <<"1">>, currency |-> eur]

\* spreadsheet rows as read_pricelist_bytes yields them, a dict from column
\* name to cell text: a price-list row and every row that differs from it in
\* one column
RawRows ==
    {r \in [username : {BaseRow.username}, mccmnc : MccMncs, price : Prices,
            currency : RawCurrencies] :
        Cardinality({f \in {"mccmnc", "price", "currency"} : r[f] # BaseRow[f]}) <= 1}

\* a message carries one attachment holding one row
Messages == RawRows

\* an exception: its type and, for a failure of the mailbox connection, the
\* attempt that raised it (for a RetryError: the attempt it wraps)
NoExc == [type |-> "none", attempt |-> 0]
ConnectionError(k) == [type |-> "ConnectionError", attempt |-> k]
OperationalError == [type |-> "OperationalError", attempt |-> 0]

(* ----------------------------- slicing --------------------------------- *)
\* s[:n] and s[n:] of Python for 0 <= n
Take(s, n) == IF n >= Len(s) THEN s ELSE SubSeq(s, 1, n)
Drop(s, n) == IF n >= Len(s) THEN <<>> ELSE SubSeq(s, n + 1, Len(s))

\* ids[-limit:] of Python: -0 is 0, so a limit of 0 keeps everything
LastN(s, n) == IF n = 0 \/ n >= Len(s) THEN s ELSE SubSeq(s, Len(s) - n + 1, Len(s))

IsPrefix(s, t) == Len(s) <= Len(t) /\ \A i \in 1..Len(s) : s[i] = t[i]

(* ------------------------------- text ---------------------------------- *)
\* str.lower(), on the letters that occur in the model's texts
LowerChar(c) ==
    CASE c = "A" -> "a" [] c = "B" -> "b" [] c = "C" -> "c" [] c = "N" -> "n"
      [] c = "E" -> "e" [] c = "U" -> "u" [] c = "R" -> "r" [] c = "S" -> "s"
      [] c = "D" -> "d" [] c = "V" -> "v" [] c = "X" -> "x" [] c = "L" -> "l"
      [] c = "P" -> "p" [] c = "F" -> "f" [] OTHER -> c

Lower(s) == [i \in DOMAIN s |-> LowerChar(s[i])]

\* a in b, for two strings
Contains(b, a) ==
    \E i \in 0..(Len(b) - Len(a)) : SubSeq(b, i + 1, i + Len(a)) = a

\* str.strip(): the model's only whitespace is the blank
FirstNonBlank(s) ==
    IF \A i \in DOMAIN s : s[i] = " " THEN Len(s) + 1
    ELSE CHOOSE i \in DOMAIN s : s[i] # " " /\ \A j \in 1..(i - 1) : s[j] = " "

LastNonBlank(s) ==
    IF \A i \in DOMAIN s : s[i] = " " THEN 0
    ELSE CHOOSE i \in DOMAIN s : s[i] # " " /\ \A j \in (i + 1)..Len(s) : s[j] = " "

Strip(s) == SubSeq(s, FirstNonBlank(s), LastNonBlank(s))

\* pr.replace(",", ".")
ReplaceComma(s) == [i \in DOMAIN s |-> IF s[i] = "," THEN "." ELSE s[i]]

Digits == {"0", "1", "2", "3", "4", "5", "6", "7", "8", "9"}

DigitVal(c) ==
    CASE c = "0" -> 0 [] c = "1" -> 1 [] c = "2" -> 2 [] c = "3" -> 3
      [] c = "4" -> 4 [] c = "5" -> 5 [] c = "6" -> 6 [] c = "7" -> 7
      [] c = "8" -> 8 [] c = "9" -> 9

RECURSIVE DigitsVal(_)
\* the number written by a string of digits, 0 for the empty string
DigitsVal(s) ==
    IF s = <<>> THEN 0
    ELSE 10 * DigitsVal(SubSeq(s, 1, Len(s) - 1)) + DigitVal(s[Len(s)])

\* the texts float() accepts, among the texts of the model: after stripping,
\* 'nan' in any letter case, or digits with at most one period and at least
\* one digit.  Every other text of the model raises ValueError.
IsNanLiteral(t) == Lower(t) = <<"n", "a", "n">>

IsDecimalLiteral(t) ==
    /\ \A i \in DOMAIN t : t[i] \in Digits \cup {"."}
    /\ Cardinality({i \in DOMAIN t : t[i] = "."}) <= 1
    /\ \E i \in DOMAIN t : t[i] \in Digits

float_accepts(s) == IsNanLiteral(Strip(s)) \/ IsDecimalLiteral(Strip(s))

\* float(s) for an accepted text, in hundredths
float(s) ==
    LET t == Strip(s)
        dot == IF \E i \in DOMAIN t : t[i] = "."
               THEN CHOOSE i \in DOMAIN t : t[i] = "." ELSE Len(t) + 1
        whole == SubSeq(t, 1, dot - 1)
        frac == SubSeq(t, dot + 1, Len(t))
        f1 == IF Len(frac) >= 1 THEN DigitVal(frac[1]) ELSE 0
        f2 == IF Len(frac) >= 2 THEN DigitVal(frac[2]) ELSE 0
    IN IF IsNanLiteral(t) THEN NaN
       ELSE Num(100 * DigitsVal(whole) + 10 * f1 + f2)

(* ------------------------------ mapper --------------------------------- *)
\* row.get(c): None for a missing column (None and '' are both NullText)
Cell(row, c) == IF c \in DOMAIN row THEN row[c] ELSE NullText

RECURSIVE _get(_, _)
\* _get: the stripped value of the first candidate column whose cell is
\* none of None, '' and 'nan'; None when there is none.  The test is made
\* on the cell as read, before it is stripped.
_get(row, names) ==
    IF names = <<>> THEN NullText
    ELSE LET v == Cell(row, Head(names))
         IN IF v \notin {NullText, <<"n", "a", "n">>} THEN Strip(v)
            ELSE _get(row, Tail(names))

\* mapping.get(field, default)
CandidateColumns(mapping, field, default) ==
    IF field \in DOMAIN mapping THEN mapping[field] ELSE default

\* the six _get calls of map_row
probe(row, mapping) ==
    [username |-> _get(row, CandidateColumns(mapping, "username", <<"username">>)),
     mcc |-> _get(row, CandidateColumns(mapping, "mcc", <<"mcc">>)),
     mnc |-> _get(row, CandidateColumns(mapping, "mnc", <<"mnc">>)),
     mccmnc |-> _get(row, CandidateColumns(mapping, "mccmnc", <<"mccmnc">>)),
     price |-> _get(row, CandidateColumns(mapping, "price", <<"price">>)),
     currency |-> _get(row, CandidateColumns(mapping, "currency", <<"currency">>)),
     effective |-> _get(row, CandidateColumns(mapping, "effective",
                                             <<"effective", "valid_from">>))]

derive_mccmnc_Swapped(mm, mcc, mnc) ==
    IF mm = NullText /\ mcc # NullText /\ mnc # NullText THEN mnc \o mcc ELSE mm

\* if not mm and mcc and mnc: mm=f"{mcc}{mnc}"
derive_mccmnc(mm, mcc, mnc) ==
    IF mm = NullText /\ mcc # NullText /\ mnc # NullText THEN mcc \o mnc ELSE mm

is_valid_UsernameOnly(out) == out.username # NullText

\* out.get("username") and out.get("mccmnc")
is_valid(out) == out.username # NullText /\ out.mccmnc # NullText

\* map_row(row, mapping): <<record>>, or <<>> for None
map_row(row, mapping) ==
    LET got == probe(row, mapping)
        mm == derive_mccmnc(got.mccmnc, got.mcc, got.mnc)
        pr == ReplaceComma(got.price)
    IN IF got.price = NullText THEN <<>>
       ELSE IF ~float_accepts(pr) THEN <<>>
       ELSE LET out == [username |-> got.username, mccmnc |-> mm, price |-> float(pr),
                        currency |-> Upper(OrEUR(got.currency)),
                        effective |-> got.effective]
            IN IF is_valid(out) THEN <<out>> ELSE <<>>

\* a mapping of "{}": every field is read from its default columns
EmptyMapping == <<>>

\* the enabled parsing templates (conditions "{}" match every message)
parsing_templates == <<[supplier_id |-> 1, connection_id |-> 2, mapping |-> EmptyMapping]>>

RECURSIVE RowsOf(_, _)
\* the candidates one message yields: for each template in order, its row
RowsOf(msg, tpls) ==
    IF tpls = <<>> THEN <<>>
    ELSE LET recs == map_row(msg, Head(tpls).mapping)
             here == IF recs = <<>> THEN <<>>
                     ELSE <<[row |-> recs[1], supplier_id |-> Head(tpls).supplier_id,
                             connection_id |-> Head(tpls).connection_id]>>
         IN here \o RowsOf(msg, Tail(tpls))

RECURSIVE Candidates(_)
\* the rows of one cycle in processing order: for msg, for template, for row
Candidates(msgs) ==
    IF msgs = <<>> THEN <<>>
    ELSE RowsOf(Head(msgs), parsing_templates) \o Candidates(Tail(msgs))

(* ------------------------------- store --------------------------------- *)
\* index of the first row of a query result, 0 for None.  Rows are kept in
\* insertion order and ids are the positions, as rows are never deleted.
First(S) == IF S = {} THEN 0 ELSE CHOOSE i \in S : \A j \in S : i <= j

EmptyDb ==
    [schema |-> [tables |-> FALSE, per_delivered_default |-> FALSE],
     countries |-> <<>>, networks |-> <<>>,
     offers_current |-> <<>>, offers_history |-> <<>>]

\* create_all, then the per_delivered default
ensure_schema(d) ==
    [d EXCEPT !.schema = [tables |-> TRUE, per_delivered_default |-> TRUE]]

FindNetwork(nets, mccmnc) ==
    First({i \in DOMAIN nets : nets[i].mccmnc = mccmnc})

FindCountry_ByName(ctrs, mcc) ==
    First({i \in DOMAIN ctrs : ctrs[i].name = mcc})

FindCountry(ctrs, mcc) ==
    First({i \in DOMAIN ctrs : ctrs[i].mcc = mcc})

\* the resolver part of upsert_offer: look up the Network, else look up or
\* create the Country of the 3-character prefix and create the Network.
\* Each creation is committed on its own.
resolve_network(d, mccmnc) ==
    LET n == FindNetwork(d.networks, mccmnc)
    IN IF n # 0 THEN [db |-> d, network_id |-> n]
       ELSE LET mcc == Take(mccmnc, 3)
                c == FindCountry(d.countries, mcc)
                ctrs == IF c # 0 THEN d.countries
                        ELSE Append(d.countries,
                                 [id |-> Len(d.countries) + 1,
                                  name |-> <<"M", "C", "C", " ">> \o mcc,
                                  mcc |-> mcc])
                country_id == IF c # 0 THEN c ELSE Len(d.countries) + 1
                net == [id |-> Len(d.networks) + 1, country_id |-> country_id,
                        mnc |-> Drop(mccmnc, 3), mccmnc |-> mccmnc]
            IN [db |-> [d EXCEPT !.countries = ctrs,
                                 !.networks = Append(d.networks, net)],
                network_id |-> net.id]

FindCurrent_WrongKey(offers, supplier_id, connection_id, network_id) ==
    First({i \in DOMAIN offers :
              /\ offers[i].supplier_id = supplier_id
              /\ offers[i].connection_id = connection_id
              /\ offers[i].network_id = connection_id})

FindCurrent(offers, supplier_id, connection_id, network_id) ==
    First({i \in DOMAIN offers :
              /\ offers[i].supplier_id = supplier_id
              /\ offers[i].connection_id = connection_id
              /\ offers[i].network_id = network_id})

\* cur.price==price and (cur.currency or "EUR")==currency
IsIdentical(cur, price, currency) ==
    FloatEq(cur.price, price) /\ OrEUR(cur.currency) = currency

\* the OfferHistory row of an update: the columns of the model class
NewHistory(cur, price, now, id) ==
    [id |-> id, previous_id |-> cur.id, supplier_id |-> cur.supplier_id,
     connection_id |-> cur.connection_id, network_id |-> cur.network_id,
     price |-> cur.price, effective_date |-> cur.effective_date,
     updated_at |-> now]

AddHistory_Overwrite(hist, h) ==
    IF hist = <<>> THEN <<h>> ELSE [hist EXCEPT ![Len(hist)] = h]

AddHistory_Twice(hist, h) == Append(Append(hist, h), [h EXCEPT !.id = @ + 1])

\* db.add(hist)
AddHistory(hist, h) == Append(hist, h)

NewCurrent_DefaultCurrency(supplier_id, connection_id, network_id, price, currency, now, id) ==
    [id |-> id, supplier_id |-> supplier_id, connection_id |-> connection_id,
     network_id |-> network_id, price |-> price, currency |-> EUR,
     effective_date |-> now, updated_at |-> now]

\* the OfferCurrent row of an insert
NewCurrent(supplier_id, connection_id, network_id, price, currency, now, id) ==
    [id |-> id, supplier_id |-> supplier_id, connection_id |-> connection_id,
     network_id |-> network_id, price |-> price, currency |-> currency,
     effective_date |-> now, updated_at |-> now]

\* the store's check of a write to offers_current: VARCHAR(8)
StoreAccepts(currency) == Len(currency) <= CurrencyColLen

FailedFlush_KeepsHistory(d, pending) ==
    [d EXCEPT !.offers_history = pending.offers_history]

\* the store after a flush that failed inside commit(): the transaction is
\* rolled back, so nothing of the pending unit of work is kept
FailedFlush(d, pending) == d

\* upsert_offer(db, row, supplier_id, connection_id) on a session in state
\* `session`.  A failed flush inside commit() rolls the transaction back and
\* leaves the session inactive until rollback() is called; every later
\* statement on it raises.  status "raised" stands for the exception.
upsert_offer(d, session, clock, row, supplier_id, connection_id) ==
    IF session # "active"
    THEN [status |-> "raised", db |-> d, session |-> session, clock |-> clock]
    ELSE LET r == resolve_network(d, row.mccmnc)
             d1 == r.db
             c == FindCurrent(d1.offers_current, supplier_id, connection_id, r.network_id)
             now == clock + 1
             currency == Upper(OrEUR(row.currency))
             price == row.price
             pending == IF c = 0 THEN d1
                        ELSE [d1 EXCEPT !.offers_history =
                                 AddHistory(@, NewHistory(d1.offers_current[c], price, now,
                                                          Len(d1.offers_history) + 1))]
         IN IF c # 0 /\ IsIdentical(d1.offers_current[c], price, currency)
            THEN [status |-> "identical", db |-> d1, session |-> session, clock |-> clock]
            ELSE IF ~StoreAccepts(currency)
            THEN [status |-> "raised", db |-> FailedFlush(d1, pending),
                  session |-> "inactive", clock |-> clock]
            ELSE IF c # 0
            THEN LET cur == d1.offers_current[c]
                     hist == NewHistory(cur, price, now, Len(d1.offers_history) + 1)
                 IN [status |-> "updated",
                     db |-> [d1 EXCEPT !.offers_history = AddHistory(@, hist),
                                       !.offers_current[c] =
                                           [@ EXCEPT !.price = price, !.currency = currency,
                                                     !.effective_date = now, !.updated_at = now]],
                     session |-> session, clock |-> now]
            ELSE LET cur == NewCurrent(supplier_id, connection_id, r.network_id, price,
                                       currency, now, Len(d1.offers_current) + 1)
                 IN [status |-> "inserted",
                     db |-> [d1 EXCEPT !.offers_current = Append(@, cur)],
                     session |-> session, clock |-> now]

(* ----------------------------- the worker ------------------------------ *)
VARIABLES
    db,         \* the relational store: schema state and the tables
    clock,      \* the last timestamp datetime.now handed to a write
    mailbox,    \* the non-deleted messages of the folder, by ascending id
    imapEnv,    \* which of IMAP_HOST, IMAP_USER and IMAP_PASSWORD are set
    pc,         \* position of the scheduling loop
    session,    \* state of the cycle's database session
    attempts,   \* connection attempts made by the last fetch_messages call
    batch,      \* the candidate rows of the current cycle, in order
    idx,        \* the next row of batch to process
    counters,   \* total / inserted / updated / identical / errors
    outcomes,   \* status of each processed row of the current cycle
    raised,     \* the exception that left the last ingest_once call, if any
    printed,    \* what the last ingest_once call of the loop printed
    dry,        \* result of the ingest-dryrun command, while it is the last operation
    workers,    \* concurrent upsert_offer calls: each worker's position and locals
    call        \* one call of a parser function: its arguments and its result

vars == <<db, clock, mailbox, imapEnv, pc, session, attempts, batch, idx,
          counters, outcomes, raised, printed, dry, workers, call>>

\* the variables of the scheduling loop
loopVars == <<mailbox, imapEnv, pc, session, attempts, batch, idx,
              counters, outcomes, raised, printed, dry>>

\* no concurrent upsert_offer call, no parser call under study
NoWorkers == <<>>
NoCall == [fn |-> "none"]

ZeroCounters == [total |-> 0, inserted |-> 0, updated |-> 0, identical |-> 0, errors |-> 0]

NoPrint == [kind |-> "none", counters |-> ZeroCounters]

NoDry == [ran |-> FALSE, printed |-> NoPrint, raised |-> NoExc]

\* the mailbox settings of the worker's environment: which are set
Environments == [host : BOOLEAN, user : BOOLEAN, pwd : BOOLEAN]

FullEnv == [host |-> TRUE, user |-> TRUE, pwd |-> TRUE]

env_complete_HostOnly(e) == e.host

\* host and user and pwd
env_complete(e) == e.host /\ e.user /\ e.pwd

\* the scheduling loop before its first cycle
LoopInit ==
    /\ mailbox = <<>>
    /\ imapEnv \in Environments
    /\ pc = "loop"
    /\ session = "closed"
    /\ attempts = 0
    /\ batch = <<>>
    /\ idx = 1
    /\ counters = ZeroCounters
    /\ outcomes = <<>>
    /\ raised = NoExc
    /\ printed = NoPrint
    /\ dry = NoDry

Init ==
    /\ db = EmptyDb
    /\ clock = 0
    /\ LoopInit
    /\ workers = NoWorkers
    /\ call = NoCall

RunloopOnException_NoCatch == "dead"

\* runloop.py: except Exception: traceback.print_exc(), then the sleep
RunloopOnException == "sleep"

stop_after_attempt_Late(n) == n > MaxAttempts

\* tenacity stop_after_attempt(3): stop once the attempt number reaches 3
stop_after_attempt(n) == n >= MaxAttempts

\* tenacity without reraise=True: RetryError raised from the last attempt's
\* exception
retry_error(last) == [type |-> "RetryError", attempt |-> last.attempt]

count_row_ErrorsDropped(c, status) ==
    [c EXCEPT !.total = @ + 1,
              !.inserted = IF status = "inserted" THEN @ + 1 ELSE @,
              !.updated = IF status = "updated" THEN @ + 1 ELSE @,
              !.identical = IF status = "identical" THEN @ + 1 ELSE @]

\* finally: db.close()
finally_close_Leak(s) == s

finally_close(s) == "closed"

\* the body of the row loop of ingest_once, after upsert_offer or its
\* exception
count_row(c, status) ==
    [c EXCEPT !.total = @ + 1,
              !.inserted = IF status = "inserted" THEN @ + 1 ELSE @,
              !.updated = IF status = "updated" THEN @ + 1 ELSE @,
              !.identical = IF status = "identical" THEN @ + 1 ELSE @,
              !.errors = IF status = "raised" THEN @ + 1 ELSE @]

\* a new message reaches the folder while the loop sleeps
MailArrives(m) ==
    /\ UNCHANGED <<workers, call>>
    /\ pc = "sleep"
    /\ Len(mailbox) < MaxMsgs
    /\ mailbox' = Append(mailbox, m)
    /\ dry' = NoDry
    /\ UNCHANGED <<db, clock, imapEnv, pc, session, attempts, batch, idx,
                   counters, outcomes, raised, printed>>

\* ingest_once(dryrun=False) up to the fetch: ensure_schema, the environment
\* check, the session and the template query.  storeDown: the store is
\* unreachable and ensure_schema raises.
BeginCycle(storeDown) ==
    /\ UNCHANGED <<workers, call>>
    /\ pc = "loop"
    /\ dry' = NoDry
    /\ attempts' = 0
    /\ batch' = <<>>
    /\ idx' = 1
    /\ counters' = ZeroCounters
    /\ outcomes' = <<>>
    /\ printed' = IF ~storeDown /\ ~env_complete(imapEnv)
                  THEN [kind |-> "env_missing", counters |-> ZeroCounters]
                  ELSE NoPrint
    /\ IF storeDown
       THEN /\ raised' = OperationalError
            /\ pc' = RunloopOnException
            /\ UNCHANGED <<db, session>>
       ELSE /\ db' = ensure_schema(db)
            /\ raised' = NoExc
            /\ IF env_complete(imapEnv)
               THEN pc' = "fetch" /\ session' = "active"
               ELSE pc' = "sleep" /\ UNCHANGED session
    /\ UNCHANGED <<clock, mailbox, imapEnv>>

\* one connection attempt of fetch_messages under its retry decorator
FetchAttempt(ok) ==
    /\ UNCHANGED <<workers, call>>
    /\ pc = "fetch"
    /\ dry' = NoDry
    /\ attempts' = attempts + 1
    /\ IF ok
       THEN LET rows == Candidates(LastN(mailbox, LIMIT))
            IN /\ clock + Len(rows) <= MaxClock
               /\ batch' = rows
               /\ pc' = "rows"
               /\ UNCHANGED <<session, raised>>
       ELSE IF stop_after_attempt(attempts + 1)
       THEN /\ raised' = retry_error(ConnectionError(attempts + 1))
            /\ session' = finally_close(session)
            /\ pc' = RunloopOnException
            /\ UNCHANGED batch
       ELSE UNCHANGED <<pc, session, raised, batch>>
    /\ UNCHANGED <<db, clock, mailbox, imapEnv, idx, counters, outcomes, printed>>

\* one iteration of the row loop of ingest_once(dryrun=False)
ProcessRow ==
    /\ UNCHANGED <<workers, call>>
    /\ pc = "rows"
    /\ idx <= Len(batch)
    /\ dry' = NoDry
    /\ LET c == batch[idx]
           res == upsert_offer(db, session, clock, c.row, c.supplier_id, c.connection_id)
       IN /\ db' = res.db
          /\ session' = res.session
          /\ clock' = res.clock
          /\ counters' = count_row(counters, res.status)
          /\ outcomes' = Append(outcomes, res.status)
    /\ idx' = idx + 1
    /\ UNCHANGED <<mailbox, imapEnv, pc, attempts, batch, raised, printed>>

\* the summary line and the finally clause of ingest_once
Summary ==
    /\ UNCHANGED <<workers, call>>
    /\ pc = "rows"
    /\ idx > Len(batch)
    /\ dry' = NoDry
    /\ printed' = [kind |-> "done", counters |-> counters]
    /\ session' = finally_close(session)
    /\ pc' = "sleep"
    /\ UNCHANGED <<db, clock, mailbox, imapEnv, attempts, batch, idx, counters,
                   outcomes, raised>>

\* time.sleep(REFRESH_MINUTES*60) returns and the loop iterates
Sleep ==
    /\ UNCHANGED <<workers, call>>
    /\ pc = "sleep"
    /\ dry' = NoDry
    /\ pc' = "loop"
    /\ UNCHANGED <<db, clock, mailbox, imapEnv, session, attempts, batch, idx,
                   counters, outcomes, raised, printed>>

\* the ingest-dryrun command, run while the loop is not inside a cycle:
\* ingest_once(dryrun=True) as a whole.  envOK: the command's environment has
\* the mailbox settings; fetched: the fetch succeeded, else all its attempts
\* failed.
CliDryrun(storeDown, envOK, fetched) ==
    /\ UNCHANGED <<workers, call>>
    /\ pc \in {"loop", "sleep"}
    /\ IF storeDown
       THEN /\ dry' = [ran |-> TRUE, printed |-> NoPrint, raised |-> OperationalError]
            /\ UNCHANGED db
       ELSE /\ db' = ensure_schema(db)
            /\ dry' = IF ~envOK
                      THEN [ran |-> TRUE,
                            printed |-> [kind |-> "env_missing", counters |-> ZeroCounters],
                            raised |-> NoExc]
                      ELSE IF fetched
                      THEN [ran |-> TRUE,
                            printed |-> [kind |-> "dryrun",
                                         counters |-> [ZeroCounters EXCEPT !.total =
                                             Len(Candidates(LastN(mailbox, LIMIT)))]],
                            raised |-> NoExc]
                      ELSE [ran |-> TRUE, printed |-> NoPrint,
                            raised |-> retry_error(ConnectionError(MaxAttempts))]
    /\ UNCHANGED <<clock, mailbox, imapEnv, pc, session, attempts, batch, idx,
                   counters, outcomes, raised, printed>>

\* PATCH /offers/{oid} of the web UI with a currency in the body: the text is
\* stored as given
patch_offer(oid, currency) ==
    /\ UNCHANGED <<workers, call>>
    /\ pc = "sleep"
    /\ oid \in DOMAIN db.offers_current
    /\ db.offers_current[oid].currency # currency
    /\ dry' = NoDry
    /\ db' = [db EXCEPT !.offers_current[oid].currency = currency]
    /\ UNCHANGED <<clock, mailbox, imapEnv, pc, session, attempts, batch, idx,
                   counters, outcomes, raised, printed>>

PatchCurrencies == {eur}

Next ==
    \/ \E m \in Messages : MailArrives(m)
    \/ \E storeDown \in BOOLEAN : BeginCycle(storeDown)
    \/ \E ok \in BOOLEAN : FetchAttempt(ok)
    \/ ProcessRow
    \/ Summary
    \/ Sleep
    \/ \E storeDown \in BOOLEAN, envOK \in BOOLEAN, fetched \in BOOLEAN :
           CliDryrun(storeDown, envOK, fetched)
    \/ \E oid \in 1..MaxClock, currency \in PatchCurrencies : patch_offer(oid, currency)

Spec == Init /\ [][Next]_vars

\* the steps of the scheduling loop itself
RunloopStep ==
    \/ \E storeDown \in BOOLEAN : BeginCycle(storeDown)
    \/ \E ok \in BOOLEAN : FetchAttempt(ok)
    \/ ProcessRow
    \/ Summary
    \/ Sleep

\* the loop's process is scheduled and its sleeps and network calls return
FairSpec == Spec /\ WF_vars(RunloopStep)

(* ------------------------- upsert_offer outcomes ------------------------ *)
\* the CurrentOffer rows of store d for a supplier, a connection and the
\* network(s) carrying an mccmnc
CurrentOf(d, supplier_id, connection_id, mccmnc) ==
    {i \in DOMAIN d.offers_current :
        /\ d.offers_current[i].supplier_id = supplier_id
        /\ d.offers_current[i].connection_id = connection_id
        /\ \E n \in DOMAIN d.networks :
              /\ d.networks[n].mccmnc = mccmnc
              /\ d.networks[n].id = d.offers_current[i].network_id}

\* this step is a call of upsert_offer that returned a status
UpsertReturned == pc = "rows" /\ idx' = idx + 1 /\ outcomes'[idx] # "raised"

\* the currency column of a history row; OfferHistory rows without such a
\* column hold no currency
HistCurrency(h) == IF "currency" \in DOMAIN h THEN h.currency ELSE NullText

\* C1: a call of upsert_offer for a triple whose CurrentOffer differs in price
\* or currency returns 'updated', appends exactly one OfferHistory row that
\* references the CurrentOffer and holds its prior price, prior currency and
\* prior effective date, and leaves the same CurrentOffer row holding the
\* incoming price and currency.
C1_UpdatedKeepsPriorState ==
    [][UpsertReturned =>
        LET c == batch[idx]
        IN \A i \in CurrentOf(db, c.supplier_id, c.connection_id, c.row.mccmnc) :
              LET o == db.offers_current[i]
              IN (o.price # c.row.price \/ o.currency # c.row.currency) =>
                    /\ outcomes'[idx] = "updated"
                    /\ Len(db'.offers_history) = Len(db.offers_history) + 1
                    /\ LET h == db'.offers_history[Len(db'.offers_history)]
                       IN /\ h.previous_id = o.id
                          /\ h.price = o.price
                          /\ HistCurrency(h) = o.currency
                          /\ h.effective_date = o.effective_date
                    /\ db'.offers_current[i].id = o.id
                    /\ db'.offers_current[i].price = c.row.price
                    /\ db'.offers_current[i].currency = c.row.currency]_vars

\* C2: a call of upsert_offer for a triple whose CurrentOffer has the same
\* price and the same currency returns 'identical', creates no OfferHistory
\* row and leaves every CurrentOffer row unchanged.
C2_IdenticalWritesNothing ==
    [][UpsertReturned =>
        LET c == batch[idx]
        IN \A i \in CurrentOf(db, c.supplier_id, c.connection_id, c.row.mccmnc) :
              LET o == db.offers_current[i]
              IN (o.price = c.row.price /\ o.currency = c.row.currency) =>
                    /\ outcomes'[idx] = "identical"
                    /\ db'.offers_history = db.offers_history
                    /\ db'.offers_current = db.offers_current]_vars

\* C3: a call of upsert_offer for a triple without CurrentOffer returns
\* 'inserted', creates exactly one CurrentOffer row for the triple with the
\* incoming price and currency, and creates no OfferHistory row.
C3_InsertedCreatesOneRow ==
    [][UpsertReturned =>
        LET c == batch[idx]
        IN CurrentOf(db, c.supplier_id, c.connection_id, c.row.mccmnc) = {} =>
              /\ outcomes'[idx] = "inserted"
              /\ Len(db'.offers_current) = Len(db.offers_current) + 1
              /\ SubSeq(db'.offers_current, 1, Len(db.offers_current)) = db.offers_current
              /\ CurrentOf(db', c.supplier_id, c.connection_id, c.row.mccmnc)
                    = {Len(db'.offers_current)}
              /\ db'.offers_current[Len(db'.offers_current)].price = c.row.price
              /\ db'.offers_current[Len(db'.offers_current)].currency = c.row.currency
              /\ db'.offers_history = db.offers_history]_vars

\* a call has just returned 'inserted' for a second triple
C3_Witness ==
    /\ pc = "rows" /\ outcomes # <<>>
    /\ outcomes[Len(outcomes)] = "inserted"
    /\ Len(db.offers_current) = 2

\* C4: with cycles run one at a time there is at most one CurrentOffer row
\* per (supplier_id, connection_id, network_id).
C4_UniqueTriple ==
    \A i, j \in DOMAIN db.offers_current :
        (/\ db.offers_current[i].supplier_id = db.offers_current[j].supplier_id
         /\ db.offers_current[i].connection_id = db.offers_current[j].connection_id
         /\ db.offers_current[i].network_id = db.offers_current[j].network_id)
        => i = j

\* two triples have a CurrentOffer and one of them was written to again
C4_Witness == Len(db.offers_current) = 2 /\ clock > Len(db.offers_current)

\* C5: OfferHistory is append-only: no step changes or removes a history row
\* written before it.
C5_HistoryAppendOnly ==
    [][IsPrefix(db.offers_history, db'.offers_history)]_vars

\* a history row was appended after an earlier one
C5_Witness == Len(db.offers_history) >= 2

(* ------------------------------ the cycle ------------------------------ *)
\* C6: a call ingest_once(dryrun=True) leaves the relational store, schema
\* and rows, exactly as it was before the call.
C6_DryrunLeavesStore ==
    [][dry'.ran => db' = db]_vars

\* the store rejects the write of this candidate row by itself
Rejected(c) == Len(c.row.currency) > CurrencyColLen

\* C7: a row that raises is counted once in errors and the other rows of the
\* cycle are processed as if it had not been in the batch: the rows counted
\* as errors are exactly the rows whose own write fails.
C7_RowFailureIsolated ==
    pc = "rows" =>
        /\ \A i \in DOMAIN outcomes : outcomes[i] = "raised" <=> Rejected(batch[i])
        /\ counters.errors = Cardinality({i \in DOMAIN outcomes : Rejected(batch[i])})

\* C8: when the CurrentOffer of the triple has the same price and a currency
\* that differs from the incoming one only in letter case, the outcome is
\* 'identical' and nothing is written.
C8_CurrencyCaseInsensitive ==
    [][UpsertReturned =>
        LET c == batch[idx]
        IN \A i \in CurrentOf(db, c.supplier_id, c.connection_id, c.row.mccmnc) :
              LET o == db.offers_current[i]
              IN (FloatEq(o.price, c.row.price) /\ Upper(o.currency) = Upper(c.row.currency)) =>
                    /\ outcomes'[idx] = "identical"
                    /\ db' = db]_vars

\* C9: whatever the outcome of a cycle, the loop sleeps and then starts
\* another cycle: the loop is at its top infinitely often and leaves it
\* infinitely often.
C9_LoopNeverTerminates ==
    ([]<>(pc = "loop")) /\ ([]<>(pc = "sleep"))

\* the loop is back at its top after a cycle that raised
C9_Witness == pc = "loop" /\ raised = OperationalError

\* an exception left fetch_messages in the current cycle
FetchRaised == attempts >= 1 /\ raised # NoExc

\* C10 as stated: at most 3 attempts; a success returns that attempt's
\* messages; after 3 failures the caller gets the error raised by the last
\* attempt.
C10_SurfacesLastError ==
    /\ attempts <= MaxAttempts
    /\ pc = "rows" => batch = Candidates(LastN(mailbox, LIMIT))
    /\ FetchRaised => attempts = MaxAttempts /\ raised = ConnectionError(MaxAttempts)

\* C10 amended: at most 3 attempts; a success returns that attempt's messages
\* and ends the call; after 3 failures the caller gets a RetryError that wraps
\* the failed third attempt.
C10_RetryPolicy ==
    /\ attempts <= MaxAttempts
    /\ pc = "rows" => batch = Candidates(LastN(mailbox, LIMIT))
    /\ FetchRaised =>
          /\ attempts = MaxAttempts
          /\ raised = [type |-> "RetryError", attempt |-> MaxAttempts]
          /\ pc # "rows"

\* two attempts failed and the third delivered the mailbox's message
C10_Witness == pc = "rows" /\ attempts = MaxAttempts /\ batch # <<>>

(* ------------------------------ C11 ------------------------------------ *)
\* C11: every invocation of ingest_once ends by printing its counters: the
\* call of the loop that has just ended (the loop is in its sleep) printed
\* the "done" line with its five counters, and a dry-run call printed the
\* parsed count; this includes a call with missing mailbox credentials and
\* a call whose fetch failed on all attempts.
C11_SummaryAlwaysPrinted ==
    /\ pc = "sleep" => printed.kind = "done"
    /\ dry.ran => dry.printed.kind = "dryrun"

(* ------------------------------ C13 ------------------------------------ *)
\* the 3-character prefix of a code
Prefix3(mm) == [i \in 1..(IF Len(mm) < 3 THEN Len(mm) ELSE 3) |-> mm[i]]

NetworksOf(d, mm) == {i \in DOMAIN d.networks : d.networks[i].mccmnc = mm}

CountriesOf(d, mcc) == {i \in DOMAIN d.countries : d.countries[i].mcc = mcc}

\* upsert_offer ran its resolver on the row at idx
ResolverRan == pc = "rows" /\ idx' = idx + 1 /\ session = "active"

\* C13: for the single sequential worker, resolving an mccmnc that has no
\* Network creates one Network with that mccmnc and, only if none has the
\* 3-character prefix as mcc, one Country named 'MCC <mcc>' with that mcc;
\* resolving an mccmnc whose Network exists creates nothing; and at every
\* moment there is at most one Network per mccmnc, at most one Country per
\* mcc, and every Network lies under the Country of its prefix.
C13_ResolverIdempotent ==
    /\ [](/\ \A i, j \in DOMAIN db.networks :
                 db.networks[i].mccmnc = db.networks[j].mccmnc => i = j
          /\ \A i, j \in DOMAIN db.countries :
                 db.countries[i].mcc = db.countries[j].mcc => i = j
          /\ \A i \in DOMAIN db.networks :
                 /\ db.networks[i].country_id \in DOMAIN db.countries
                 /\ LET c == db.countries[db.networks[i].country_id]
                    IN /\ c.mcc = Prefix3(db.networks[i].mccmnc)
                       /\ c.name = <<"M", "C", "C", " ">> \o c.mcc)
    /\ [][ResolverRan =>
            LET mm == batch[idx].row.mccmnc
            IN IF NetworksOf(db, mm) # {}
               THEN /\ db'.networks = db.networks
                    /\ db'.countries = db.countries
               ELSE /\ Len(db'.networks) = Len(db.networks) + 1
                    /\ IsPrefix(db.networks, db'.networks)
                    /\ Cardinality(NetworksOf(db', mm)) = 1
                    /\ IsPrefix(db.countries, db'.countries)
                    /\ Len(db'.countries) =
                          IF CountriesOf(db, Prefix3(mm)) # {}
                          THEN Len(db.countries) ELSE Len(db.countries) + 1]_vars

\* two Networks under one Country, and a row whose Network already existed
C13_Witness ==
    /\ Len(db.networks) = 2
    /\ Len(db.countries) = 1
    /\ counters.identical >= 1

(* ------------------- two workers on the same store --------------------- *)
\* Two worker instances each run one upsert_offer call against the same
\* store.  A step is one statement of the call as the store sees it: a
\* query, or a flush with its commit.  Nothing in the schema (no unique
\* constraint on networks.mccmnc or on the offer triple) and nothing in the
\* code (no lock, no SELECT FOR UPDATE) orders the steps of the two calls.
Workers == {"w1", "w2"}

NoRow == [id |-> 0]

\* the rows map_row hands to upsert_offer
MappedRows == {c.row : c \in {Candidates(<<m>>)[1] : m \in Messages}}

\* upsert_offer(db, row, supplier_id, connection_id) before its first statement
StartOf(row) ==
    [pc |-> "query_network", row |-> row,
     supplier_id |-> parsing_templates[1].supplier_id,
     connection_id |-> parsing_templates[1].connection_id,
     net |-> 0, ctry |-> 0, cur |-> NoRow, status |-> "running"]

\* a store one earlier cycle has written the price-list row to
SeededDb ==
    upsert_offer(ensure_schema(EmptyDb), "active", 0, Candidates(<<BaseRow>>)[1].row,
                 parsing_templates[1].supplier_id,
                 parsing_templates[1].connection_id).db

ConcInit ==
    /\ \/ db = ensure_schema(EmptyDb) /\ clock = 0
       \/ db = SeededDb /\ clock = 1
    /\ LoopInit
    /\ imapEnv = FullEnv
    /\ workers \in [Workers -> {StartOf(r) : r \in MappedRows}]
    /\ call = NoCall

\* line 15: net = query(Network).filter(mccmnc == row["mccmnc"]).first()
QueryNetwork(w) ==
    /\ workers[w].pc = "query_network"
    /\ LET n == FindNetwork(db.networks, workers[w].row.mccmnc)
       IN workers' = [workers EXCEPT ![w].net = n,
                                     ![w].pc = IF n # 0 THEN "query_current"
                                               ELSE "query_country"]
    /\ UNCHANGED <<db, clock, loopVars, call>>

\* line 18: ctry = query(Country).filter(mcc == mcc).first()
QueryCountry(w) ==
    /\ workers[w].pc = "query_country"
    /\ LET c == FindCountry(db.countries, Take(workers[w].row.mccmnc, 3))
       IN workers' = [workers EXCEPT ![w].ctry = c,
                                     ![w].pc = IF c # 0 THEN "insert_network"
                                               ELSE "insert_country"]
    /\ UNCHANGED <<db, clock, loopVars, call>>

\* line 20: db.add(ctry); db.commit(); db.refresh(ctry)
InsertCountry(w) ==
    /\ workers[w].pc = "insert_country"
    /\ LET mcc == Take(workers[w].row.mccmnc, 3)
           id == Len(db.countries) + 1
       IN /\ db' = [db EXCEPT !.countries =
                        Append(@, [id |-> id, name |-> <<"M", "C", "C", " ">> \o mcc,
                                   mcc |-> mcc])]
          /\ workers' = [workers EXCEPT ![w].ctry = id, ![w].pc = "insert_network"]
    /\ UNCHANGED <<clock, loopVars, call>>

\* lines 21-22: db.add(net); db.commit(); db.refresh(net)
InsertNetwork(w) ==
    /\ workers[w].pc = "insert_network"
    /\ LET mm == workers[w].row.mccmnc
           id == Len(db.networks) + 1
       IN /\ db' = [db EXCEPT !.networks =
                        Append(@, [id |-> id, country_id |-> workers[w].ctry,
                                   mnc |-> Drop(mm, 3), mccmnc |-> mm])]
          /\ workers' = [workers EXCEPT ![w].net = id, ![w].pc = "query_current"]
    /\ UNCHANGED <<clock, loopVars, call>>

\* lines 24-35: cur = query(OfferCurrent)...first(), loaded into the session,
\* and the comparison with the incoming price and currency
QueryCurrent(w) ==
    /\ workers[w].pc = "query_current"
    /\ LET me == workers[w]
           c == FindCurrent(db.offers_current, me.supplier_id, me.connection_id, me.net)
           cur == IF c = 0 THEN NoRow ELSE db.offers_current[c]
           same == c # 0 /\ IsIdentical(cur, me.row.price, Upper(OrEUR(me.row.currency)))
       IN workers' = [workers EXCEPT ![w].cur = cur,
                                     ![w].pc = IF same THEN "done" ELSE "write",
                                     ![w].status = IF same THEN "identical" ELSE @]
    /\ UNCHANGED <<db, clock, loopVars, call>>

HistorySource_Stored(loaded, stored) == stored

\* lines 38-40: the history row is built from cur, the object the session
\* loaded at line 24, not from the row as the store holds it now
HistorySource(loaded, stored) == loaded

\* the UPDATE the unit of work emits for cur: a column is set when the
\* assigned value is not equal to the loaded one
OrmUpdate(stored, loaded, price, currency, now) ==
    [stored EXCEPT !.price = IF FloatEq(loaded.price, price) THEN @ ELSE price,
                   !.currency = IF loaded.currency = currency THEN @ ELSE currency,
                   !.effective_date = now, !.updated_at = now]

\* lines 37-49: the write of the update branch or of the insert branch, with
\* its commit
WriteOffer(w) ==
    /\ workers[w].pc = "write"
    /\ LET me == workers[w]
           now == clock + 1
           currency == Upper(OrEUR(me.row.currency))
       IN IF ~StoreAccepts(currency)
          THEN /\ workers' = [workers EXCEPT ![w].pc = "done", ![w].status = "raised"]
               /\ UNCHANGED <<db, clock>>
          ELSE IF me.cur # NoRow
          THEN LET id == me.cur.id
                   hist == NewHistory(HistorySource(me.cur, db.offers_current[id]),
                                      me.row.price, now, Len(db.offers_history) + 1)
               IN /\ db' = [db EXCEPT !.offers_history = AddHistory(@, hist),
                                      !.offers_current[id] =
                                          OrmUpdate(@, me.cur, me.row.price, currency, now)]
                  /\ clock' = now
                  /\ workers' = [workers EXCEPT ![w].pc = "done", ![w].status = "updated"]
          ELSE /\ db' = [db EXCEPT !.offers_current =
                             Append(@, NewCurrent(me.supplier_id, me.connection_id, me.net,
                                                  me.row.price, currency, now,
                                                  Len(db.offers_current) + 1))]
               /\ clock' = now
               /\ workers' = [workers EXCEPT ![w].pc = "done", ![w].status = "inserted"]
    /\ UNCHANGED <<loopVars, call>>

ConcNext ==
    \/ \E w \in Workers : QueryNetwork(w)
    \/ \E w \in Workers : QueryCountry(w)
    \/ \E w \in Workers : InsertCountry(w)
    \/ \E w \in Workers : InsertNetwork(w)
    \/ \E w \in Workers : QueryCurrent(w)
    \/ \E w \in Workers : WriteOffer(w)

ConcSpec == ConcInit /\ [][ConcNext]_vars

(* ------------------------------ C12 ------------------------------------ *)
\* worker w takes the step that leaves position p
Leaves(w, p) == workers[w].pc = p /\ workers'[w].pc # p

\* two Network rows share one mccmnc
DuplicateNetwork ==
    \E i, j \in DOMAIN db.networks :
        i # j /\ db.networks[i].mccmnc = db.networks[j].mccmnc

\* two CurrentOffer rows share one (supplier, connection, network) triple
DuplicateOffer ==
    \E i, j \in DOMAIN db.offers_current :
        /\ i # j
        /\ db.offers_current[i].supplier_id = db.offers_current[j].supplier_id
        /\ db.offers_current[i].connection_id = db.offers_current[j].connection_id
        /\ db.offers_current[i].network_id = db.offers_current[j].network_id

\* a worker's update set a price that is neither the current price of the
\* row nor the price of any history row of it
LostUpdate ==
    \E w \in Workers :
        /\ workers[w].status = "updated"
        /\ ~workers[w].row.price.nan
        /\ workers[w].row.price # workers[w].cur.price
        /\ db.offers_current[workers[w].cur.id].price # workers[w].row.price
        /\ \A h \in DOMAIN db.offers_history :
               db.offers_history[h].previous_id = workers[w].cur.id
                   => db.offers_history[h].price # workers[w].row.price

\* C12: two interleaved upsert_offer calls are unprotected: each write is made
\* as decided from the worker's earlier read, whatever the other worker has
\* committed since.  A worker that found no Network appends one even when
\* one with that mccmnc exists by then; a worker that found no CurrentOffer
\* appends one even when one with that triple exists by then; a worker that
\* loaded a CurrentOffer records the price it loaded in the history row, even
\* when the stored price has changed since.  Duplicate Networks, duplicate
\* CurrentOffers and lost updates are therefore reachable.
C12_WritesIgnoreInterveningCommits ==
    [][\A w \in Workers :
          /\ Leaves(w, "insert_network") =>
                /\ Len(db'.networks) = Len(db.networks) + 1
                /\ db'.networks[Len(db'.networks)].mccmnc = workers[w].row.mccmnc
          /\ (Leaves(w, "write") /\ workers'[w].status = "inserted") =>
                /\ workers[w].cur = NoRow
                /\ Len(db'.offers_current) = Len(db.offers_current) + 1
                /\ db'.offers_current[Len(db'.offers_current)].network_id = workers[w].net
          /\ (Leaves(w, "write") /\ workers'[w].status = "updated") =>
                /\ Len(db'.offers_history) = Len(db.offers_history) + 1
                /\ db'.offers_history[Len(db'.offers_history)].price = workers[w].cur.price
                /\ db'.offers_history[Len(db'.offers_history)].previous_id = workers[w].cur.id
      ]_vars

\* both calls have returned and one worker's price was overwritten without a
\* history row holding it
C12_Witness == (\A w \in Workers : workers[w].pc = "done") /\ LostUpdate

(* -------------------------- template matching ------------------------- *)
_hdr_contains_CaseSensitive(msg, field, values) ==
    \E i \in DOMAIN values : Contains(msg[field], values[i])

\* _hdr_contains: msg.get(field, "") is NullText for a missing header
_hdr_contains(msg, field, values) ==
    \E i \in DOMAIN values : Contains(Lower(msg[field]), Lower(values[i]))

match_template_NoFilenames(msg, attachments, cond) ==
    IF "from" \in DOMAIN cond /\ ~_hdr_contains(msg, "from", cond["from"]) THEN FALSE
    ELSE IF "to" \in DOMAIN cond /\ ~_hdr_contains(msg, "to", cond["to"]) THEN FALSE
    ELSE IF "cc" \in DOMAIN cond /\ ~_hdr_contains(msg, "cc", cond["cc"]) THEN FALSE
    ELSE IF /\ "subject_keywords" \in DOMAIN cond
            /\ ~\E i \in DOMAIN cond["subject_keywords"] :
                   Contains(Lower(msg["subject"]), Lower(cond["subject_keywords"][i]))
         THEN FALSE
    ELSE TRUE

\* match_template(msg, attachments, tmpl), cond being the parsed
\* tmpl["conditions"]: a dict from category name to a list of texts
match_template(msg, attachments, cond) ==
    IF "from" \in DOMAIN cond /\ ~_hdr_contains(msg, "from", cond["from"]) THEN FALSE
    ELSE IF "to" \in DOMAIN cond /\ ~_hdr_contains(msg, "to", cond["to"]) THEN FALSE
    ELSE IF "cc" \in DOMAIN cond /\ ~_hdr_contains(msg, "cc", cond["cc"]) THEN FALSE
    ELSE IF /\ "subject_keywords" \in DOMAIN cond
            /\ ~\E i \in DOMAIN cond["subject_keywords"] :
                   Contains(Lower(msg["subject"]), Lower(cond["subject_keywords"][i]))
         THEN FALSE
    ELSE IF /\ "filename_keywords" \in DOMAIN cond
            /\ ~\E a \in DOMAIN attachments :
                   \E i \in DOMAIN cond["filename_keywords"] :
                      Contains(Lower(attachments[a].fn), Lower(cond["filename_keywords"][i]))
         THEN FALSE
    ELSE TRUE

Categories == {"from", "to", "cc", "subject_keywords", "filename_keywords"}

\* the headers of a message; a header the message lacks is NullText
MatchMessages ==
    [from : {<<"A", "b">>, <<"c">>}, to : {NullText, <<"A", "b">>},
     cc : {NullText, <<"c">>}, subject : {<<"A", "b">>, <<"c">>}]

\* what extract_attachments returns: filename and payload of each named part
AttachmentLists ==
    {<<>>,
     <<[fn |-> <<"A", "b">>, data |-> "bytes"]>>,
     <<[fn |-> <<"c">>, data |-> "bytes"], [fn |-> <<"A", "b">>, data |-> "bytes"]>>}

\* the value list of a category: empty, one value, two values
ValueLists == {<<>>, << <<"a">> >>, << <<"B">>, <<"c">> >>}

\* a conditions document: any subset of the categories, each with a list
ConditionSets == UNION {[D -> ValueLists] : D \in SUBSET Categories}

MatchInit ==
    /\ db = EmptyDb
    /\ clock = 0
    /\ LoopInit
    /\ imapEnv = FullEnv
    /\ workers = NoWorkers
    /\ call \in [fn : {"match_template"}, msg : MatchMessages, attachments : AttachmentLists,
                 cond : ConditionSets, done : {FALSE}, result : {FALSE}]

\* line 67 of ingest_once: the call of match_template for one message and
\* one template
CallMatchTemplate ==
    /\ call.fn = "match_template"
    /\ ~call.done
    /\ call' = [call EXCEPT !.done = TRUE,
                            !.result = match_template(call.msg, call.attachments, call.cond)]
    /\ UNCHANGED <<db, clock, loopVars, workers>>

MatchNext == CallMatchTemplate

MatchSpec == MatchInit /\ [][MatchNext]_vars

(* --------------------------- C14 and C15 ------------------------------- *)
\* two characters are the same letter, whatever their case
SameLetter(a, b) ==
    \/ a = b
    \/ {a, b} \in {{"a", "A"}, {"b", "B"}, {"c", "C"}}

\* v occurs in t as a substring, case ignored
OccursIn(v, t) ==
    \E off \in 0..(Len(t) - Len(v)) :
        \A i \in 1..Len(v) : SameLetter(v[i], t[off + i])

\* the texts a category is matched against
TargetsOf(msg, attachments, k) ==
    CASE k = "subject_keywords" -> {msg.subject}
      [] k = "filename_keywords" -> {attachments[a].fn : a \in DOMAIN attachments}
      [] OTHER -> {msg[k]}

\* a category is satisfied when one of its values occurs in one of its targets
Satisfied(msg, attachments, k, values) ==
    \E i \in DOMAIN values :
        \E t \in TargetsOf(msg, attachments, k) : OccursIn(values[i], t)

MatchReturned == call.fn = "match_template" /\ call.done

\* C14: match_template returns true exactly when every category present in
\* the conditions is satisfied, a category being satisfied when at least one
\* of its values is a case-insensitive substring of the header, the subject
\* or some attachment filename; absent categories are not enforced, so empty
\* conditions match every message.
C14_MatchIffAllPresentSatisfied ==
    MatchReturned =>
        /\ call.result =
               (\A k \in DOMAIN call.cond :
                    Satisfied(call.msg, call.attachments, k, call.cond[k]))
        /\ DOMAIN call.cond = {} => call.result

\* a match that needed the case to be ignored, on a header and on a filename
C14_Witness ==
    /\ MatchReturned
    /\ call.result
    /\ DOMAIN call.cond = {"from", "filename_keywords"}
    /\ call.cond["from"] = << <<"a">> >>
    /\ call.cond["filename_keywords"] = << <<"B">>, <<"c">> >>
    /\ call.msg["from"] = <<"A", "b">>
    /\ Len(call.attachments) = 1

\* the conditions c without category k
Without(c, k) == [x \in DOMAIN c \ {k} |-> c[x]]

\* the conditions c with category k added, listing values
With(c, k, values) == [x \in DOMAIN c \cup {k} |-> IF x = k THEN values ELSE c[x]]

\* C15: adding a category the message does not satisfy makes match_template
\* return false, and removing a category from conditions that matched leaves
\* a match.
C15_MatchMonotonic ==
    MatchReturned =>
        /\ \A k \in Categories \ DOMAIN call.cond : \A values \in ValueLists :
               ~Satisfied(call.msg, call.attachments, k, values)
                   => ~match_template(call.msg, call.attachments,
                                      With(call.cond, k, values))
        /\ call.result =>
               \A k \in DOMAIN call.cond :
                   match_template(call.msg, call.attachments, Without(call.cond, k))

\* conditions of two categories matched, and there is a category the message
\* does not satisfy that could be added
C15_Witness ==
    /\ MatchReturned
    /\ call.result
    /\ Cardinality(DOMAIN call.cond) = 2
    /\ \E k \in Categories \ DOMAIN call.cond : \E values \in ValueLists :
           values # <<>> /\ ~Satisfied(call.msg, call.attachments, k, values)

(* ------------------------------ fetching ------------------------------- *)
\* a folder: its messages by ascending mailbox-assigned identifier, which is
\* the position; TRUE marks a message flagged \\Deleted
Folders == UNION {[1..n -> BOOLEAN] : n \in 0..MaxFolder}

\* server.search(["NOT","DELETED"]): the identifiers, ascending
search_not_deleted(folder) ==
    SelectSeq([i \in 1..Len(folder) |-> i], LAMBDA i : ~folder[i])

\* the body of fetch_messages on a connection that works: the messages kept
\* by ids[-limit:], named by their identifiers, in the order of the response
fetch_messages(folder, limit) == LastN(search_not_deleted(folder), limit)

FetchInit ==
    /\ db = EmptyDb
    /\ clock = 0
    /\ LoopInit
    /\ imapEnv = FullEnv
    /\ workers = NoWorkers
    /\ call \in [fn : {"fetch_messages"}, folder : Folders, limit : 0..MaxLimit,
                 done : {FALSE}, result : {<<>>}]

\* line 62 of ingest_once: fetch_messages(..., limit=limit)
CallFetchMessages ==
    /\ call.fn = "fetch_messages"
    /\ ~call.done
    /\ call' = [call EXCEPT !.done = TRUE,
                            !.result = fetch_messages(call.folder, call.limit)]
    /\ UNCHANGED <<db, clock, loopVars, workers>>

FetchNext == CallFetchMessages

FetchSpec == FetchInit /\ [][FetchNext]_vars

(* ------------------------------ C16 ------------------------------------ *)
\* the identifiers of the messages of a folder that are not deleted
Live(folder) == {i \in DOMAIN folder : ~folder[i]}

\* C16: for every limit N >= 0 and every mailbox, fetch_messages returns at
\* most N messages, and they are the N non-deleted messages with the highest
\* identifiers (all of them when fewer than N exist).
C16_FetchesMostRecentN ==
    (call.fn = "fetch_messages" /\ call.done) =>
        LET got == {call.result[i] : i \in DOMAIN call.result}
            live == Live(call.folder)
        IN /\ Len(call.result) <= call.limit
           /\ Cardinality(got) = Len(call.result)
           /\ got \subseteq live
           /\ Len(call.result) =
                  IF Cardinality(live) < call.limit THEN Cardinality(live) ELSE call.limit
           /\ \A i \in got : \A j \in live \ got : j < i

(* ------------------------------ mapping -------------------------------- *)
\* spreadsheet rows with the columns of a price list and the alternative
\* columns a mapping may name; an empty cell is NullText
SheetRows ==
    [username : {<<"c", "1">>, NullText, <<" ">>},
     mccmnc : {<<"2", "0", "2", "0", "1">>, NullText, <<" ">>},
     mcc : {<<"2", "0", "2">>, NullText},
     mnc : {<<"0", "1">>, NullText},
     price : {<<"1", "2", ",", "5", "0">>, <<"1", ",", "2">>, <<"1", ",", "2", ",", "3">>,
              <<"a", "b", "c">>, <<"n", "a", "n">>, <<"N", "a", "N">>, <<" ">>, NullText},
     rate : {<<"2">>, NullText},
     currency : {eur, NullText},
     effective : {<<" ">>, NullText},
     valid_from : {<<"d">>, NullText}]

\* the mapping documents of the templates: "{}", and one that reads the
\* price from the price column and then from the rate column
Mappings == {EmptyMapping, [price |-> <<"price", "rate">>]}

MapInit ==
    /\ db = EmptyDb
    /\ clock = 0
    /\ LoopInit
    /\ imapEnv = FullEnv
    /\ workers = NoWorkers
    /\ call \in [fn : {"map_row"}, row : SheetRows, mapping : Mappings,
                 done : {FALSE}, probed : {<<>>}, result : {<<>>}]

\* line 82 of parse_with_template: obj = map_row(r.to_dict(), mapping)
CallMapRow ==
    /\ call.fn = "map_row"
    /\ ~call.done
    /\ call' = [call EXCEPT !.done = TRUE,
                            !.probed = probe(call.row, call.mapping),
                            !.result = map_row(call.row, call.mapping)]
    /\ UNCHANGED <<db, clock, loopVars, workers>>

MapNext == CallMapRow

MapSpec == MapInit /\ [][MapNext]_vars

(* --------------------------- C17 to C20 -------------------------------- *)
MapReturned == call.fn = "map_row" /\ call.done

\* the call returned a record
GaveRecord == MapReturned /\ call.result # <<>>

\* C17: map_row returns a record exactly when its probes found a username,
\* an mccmnc (the direct one, or both mcc and mnc to derive it from) and a
\* price that parses; otherwise it returns no record.  It has no third
\* outcome: a malformed row never makes it raise.
C17_RecordIffAllFound ==
    MapReturned =>
        /\ Len(call.result) <= 1
        /\ (call.result # <<>>) =
              (/\ call.probed.username # NullText
               /\ \/ call.probed.mccmnc # NullText
                  \/ call.probed.mcc # NullText /\ call.probed.mnc # NullText
               /\ call.probed.price # NullText
               /\ float_accepts(ReplaceComma(call.probed.price)))
        /\ call.result # <<>> =>
              /\ call.result[1].username # NullText
              /\ call.result[1].mccmnc # NullText

\* a record made from a row without a direct mccmnc
C17_Witness ==
    /\ GaveRecord
    /\ call.probed.mccmnc = NullText
    /\ call.row.username = <<"c", "1">>

\* a cell holds a value: it is not empty and not whitespace only
HasValue(cell) == \E i \in DOMAIN cell : cell[i] # " "

\* C18: the record's mccmnc is the value of the direct mccmnc column when it
\* has one; otherwise it is mcc followed by mnc when both have a value
\* ('202' and '01' give '20201'); otherwise there is no mccmnc and no record.
C18_MccMncDerivation ==
    MapReturned =>
        IF HasValue(call.row.mccmnc)
        THEN call.result # <<>> => call.result[1].mccmnc = call.row.mccmnc
        ELSE IF HasValue(call.row.mcc) /\ HasValue(call.row.mnc)
        THEN call.result # <<>> => call.result[1].mccmnc = call.row.mcc \o call.row.mnc
        ELSE call.result = <<>>

\* mcc '202' and mnc '01' gave '20201'
C18_Witness ==
    /\ GaveRecord
    /\ ~HasValue(call.row.mccmnc)
    /\ call.row.mcc = <<"2", "0", "2">>
    /\ call.row.mnc = <<"0", "1">>
    /\ call.result[1].mccmnc = <<"2", "0", "2", "0", "1">>

\* the candidate columns of a field under a mapping
ColumnsOf(mapping, field) ==
    IF field \in DOMAIN mapping THEN mapping[field]
    ELSE IF field = "effective" THEN <<"effective", "valid_from">>
    ELSE <<field>>

RECURSIVE FirstWithValue(_, _)
\* the value of the first candidate column whose cell is not empty, not
\* whitespace only and not 'nan'; NullText when there is none
FirstWithValue(row, names) ==
    IF names = <<>> THEN NullText
    ELSE LET cell == IF Head(names) \in DOMAIN row THEN row[Head(names)] ELSE NullText
         IN IF HasValue(cell) /\ cell # <<"n", "a", "n">>
            THEN cell
            ELSE FirstWithValue(row, Tail(names))

\* C19: for each target field the value map_row uses is that of the first
\* candidate column, in the configured order, whose value is non-empty and
\* not 'nan'; an empty, whitespace-only or 'nan' candidate is skipped in
\* favour of a later candidate that has a value.
C19_FirstCandidateWithValue ==
    MapReturned =>
        \A f \in DOMAIN call.probed :
            call.probed[f] = FirstWithValue(call.row, ColumnsOf(call.mapping, f))

\* a decimal number: digits with at most one period, and at least one digit
DecimalNumber(t) ==
    /\ t # <<>>
    /\ \A i \in DOMAIN t : t[i] \in {"0", "1", "2", "3", "4", "5", "6", "7", "8", "9", "."}
    /\ \A i, j \in DOMAIN t : (t[i] = "." /\ t[j] = ".") => i = j
    /\ \E i \in DOMAIN t : t[i] # "."

\* the price text after every comma is replaced by a period
Periods(t) == [i \in DOMAIN t |-> IF t[i] = "," THEN "." ELSE t[i]]

\* C20: the price text is parsed as a decimal number after every comma is
\* replaced by a period ('12,50' gives 12.50); when the price is absent,
\* empty or not numeric after the replacement, map_row returns no record.
C20_PriceParsing ==
    MapReturned =>
        /\ ~DecimalNumber(Periods(call.probed.price)) => call.result = <<>>
        /\ (call.result # <<>> /\ call.probed.price = <<"1", "2", ",", "5", "0">>)
              => call.result[1].price = Num(1250)

(* ------------------------------ C22 ------------------------------------ *)
\* the rows of the four tables of the write path
Tables(d) == <<d.countries, d.networks, d.offers_current, d.offers_history>>

\* a setting of the mailbox is absent
SettingAbsent == ~imapEnv.host \/ ~imapEnv.user \/ ~imapEnv.pwd

\* C22: when any of host, user or password is absent, a cycle makes no
\* connection attempt, opens no session to load templates, writes no row of
\* CurrentOffer, OfferHistory, Country or Network, and goes to the loop's
\* sleep; the fetch position is never entered with a setting absent, so the
\* next attempt is the next scheduled cycle's.
C22_MissingConfigAbortsCycle ==
    /\ [](SettingAbsent =>
            /\ pc \in {"loop", "sleep"}
            /\ attempts = 0
            /\ session = "closed"
            /\ batch = <<>>
            /\ Tables(db) = Tables(EmptyDb))
    /\ [][(SettingAbsent /\ pc = "loop" /\ pc' # "loop")
            => pc' = "sleep" /\ Tables(db') = Tables(db)]_vars

\* a cycle that ended on the missing password, the store being reachable
C22_Witness ==
    /\ imapEnv.host /\ imapEnv.user /\ ~imapEnv.pwd
    /\ pc = "sleep"
    /\ printed.kind = "env_missing"
    /\ mailbox # <<>>

(* ------------------------------ C25 ------------------------------------ *)
\* the fetch of the current cycle gives up on this step
FetchGivesUp == pc = "fetch" /\ raised' # NoExc

\* C25: when fetch_messages fails on all of its attempts, an error leaves
\* ingest_once, the cycle has written no row of CurrentOffer, OfferHistory,
\* Country or Network (none is written from the start of a cycle to the end
\* of its fetch), the cycle's session is closed, and the scheduler goes to
\* its sleep and from there to its next cycle.
C25_FetchFailureIsCycleFatal ==
    /\ [][FetchGivesUp =>
            /\ attempts' = MaxAttempts
            /\ raised'.type # "none"
            /\ session = "active" /\ session' = "closed"
            /\ pc' = "sleep"]_vars
    /\ [][(pc = "loop" \/ pc = "fetch") => Tables(db') = Tables(db)]_vars
    /\ ((pc = "sleep" /\ raised.type = "RetryError") ~> pc = "loop")

\* the fetch gave up over a store that holds an offer
C25_Witness ==
    /\ pc = "sleep"
    /\ raised.type = "RetryError"
    /\ db.offers_current # <<>>

(* ------------------------------ C26 ------------------------------------ *)
\* upsert_offer was called for the row at idx and has returned or raised
RowStep == pc = "rows" /\ idx' = idx + 1

\* C26: for the single worker, starting from an empty history, every
\* upsert_offer call that returns 'updated' adds exactly one OfferHistory
\* row and every other call adds none, so the number of history rows is the
\* number of 'updated' returns; and every history row's previous_id is the
\* id of an existing CurrentOffer row with the same supplier, connection and
\* network.
C26_HistoryOncePerChange ==
    /\ [][RowStep =>
            Len(db'.offers_history) =
                Len(db.offers_history) + (IF outcomes'[idx] = "updated" THEN 1 ELSE 0)]_vars
    /\ [][~RowStep => Len(db'.offers_history) = Len(db.offers_history)]_vars
    /\ [](\A h \in DOMAIN db.offers_history :
            LET p == db.offers_history[h].previous_id
            IN /\ p \in DOMAIN db.offers_current
               /\ db.offers_current[p].id = p
               /\ db.offers_current[p].supplier_id = db.offers_history[h].supplier_id
               /\ db.offers_current[p].connection_id = db.offers_history[h].connection_id
               /\ db.offers_current[p].network_id = db.offers_history[h].network_id)

\* two calls have returned 'updated'
C26_Witness == Len(db.offers_history) = 2 /\ Len(db.offers_current) = 1

(* ------------------------------ C27 ------------------------------------ *)
\* the number of candidate rows a mailbox yields: its messages whose row has
\* a username, an mccmnc and a price, once for each enabled template
CandidateCount(box) ==
    Len(parsing_templates) *
        Cardinality({i \in DOMAIN box :
                        /\ HasValue(box[i].username)
                        /\ HasValue(box[i].mccmnc)
                        /\ HasValue(box[i].price)})

Conserved(c) == c.total = c.inserted + c.updated + c.identical + c.errors

\* C27: throughout a non-dry-run cycle, and in its summary, total =
\* inserted + updated + identical + errors, and the summary's total is the
\* number of candidate rows of the mailbox; a dry-run reports inserted =
\* updated = identical = errors = 0 and the same total, the number of
\* candidate rows of the mailbox.
C27_CounterConservation ==
    /\ Conserved(counters)
    /\ pc = "rows" => Len(batch) = CandidateCount(mailbox)
    /\ printed.kind = "done" =>
          /\ Conserved(printed.counters)
          /\ printed.counters.total = Len(batch)
    /\ dry.printed.kind = "dryrun" =>
          /\ dry.printed.counters =
                [ZeroCounters EXCEPT !.total = CandidateCount(mailbox)]
          /\ (printed.kind = "done" /\ Len(outcomes) = CandidateCount(mailbox))
                => dry.printed.counters.total = printed.counters.total

\* a dry-run right after the summary of a cycle that counted an error
C27_Witness ==
    /\ printed.kind = "done"
    /\ printed.counters.errors >= 1
    /\ printed.counters.total = 2
    /\ dry.printed.kind = "dryrun"
    /\ dry.printed.counters.total = 2

(* ------------------------------ C28 ------------------------------------ *)
\* C28: a row counted in errors leaves CurrentOffer and OfferHistory exactly
\* as they were before it; and a row adds an OfferHistory row if and only if
\* it also changed an existing CurrentOffer row, the one the history row
\* points to, at the same timestamp, so no history row exists without its
\* CurrentOffer mutation and no mutation by upsert_offer without its history
\* row.
C28_RowWriteIsAtomic ==
    /\ [][(RowStep /\ outcomes'[idx] = "raised") =>
            /\ db'.offers_current = db.offers_current
            /\ db'.offers_history = db.offers_history]_vars
    /\ [][RowStep =>
            LET changed == {i \in DOMAIN db.offers_current :
                               db'.offers_current[i] # db.offers_current[i]}
            IN /\ (Len(db'.offers_history) > Len(db.offers_history)) = (changed # {})
               /\ changed # {} =>
                     LET h == db'.offers_history[Len(db'.offers_history)]
                     IN /\ changed = {h.previous_id}
                        /\ db'.offers_current[h.previous_id].updated_at = h.updated_at
                        /\ db'.offers_current[h.previous_id].effective_date = h.updated_at]_vars
    /\ [](\A h \in DOMAIN db.offers_history :
            db.offers_current[db.offers_history[h].previous_id].updated_at
                >= db.offers_history[h].updated_at)

\* in one cycle, an update was committed and a later update of the same
\* offer was rejected by the store
C28_Witness ==
    /\ pc = "rows"
    /\ Len(outcomes) = 2
    /\ outcomes[1] = "updated"
    /\ outcomes[2] = "raised"
    /\ batch[2].row.mccmnc = batch[1].row.mccmnc

(* --------------------------- parsing a message ------------------------- *)
\* str.endswith
EndsWith(s, suffix) ==
    Len(s) >= Len(suffix) /\ SubSeq(s, Len(s) - Len(suffix) + 1, Len(s)) = suffix

is_supported_CaseSensitive(filename) ==
    \/ EndsWith(filename, <<".", "c", "s", "v">>)
    \/ EndsWith(filename, <<".", "x", "l", "s", "x">>)
    \/ EndsWith(filename, <<".", "x", "l", "s">>)

\* read_pricelist_bytes: the extensions it decodes; for any other filename
\* it raises ValueError
is_supported(filename) ==
    \/ EndsWith(Lower(filename), <<".", "c", "s", "v">>)
    \/ EndsWith(Lower(filename), <<".", "x", "l", "s", "x">>)
    \/ EndsWith(Lower(filename), <<".", "x", "l", "s">>)

\* json.loads on the documents of the model: a JSON object, an array, a
\* number, and a text that is not JSON
json_loads(doc) ==
    CASE doc = "{}" -> [ok |-> TRUE, kind |-> "object", value |-> <<>>]
      [] doc = "{\"price\": [\"price\", \"rate\"]}" ->
             [ok |-> TRUE, kind |-> "object", value |-> [price |-> <<"price", "rate">>]]
      [] doc = "[]" -> [ok |-> TRUE, kind |-> "array", value |-> <<>>]
      [] doc = "5" -> [ok |-> TRUE, kind |-> "number", value |-> <<>>]
      [] OTHER -> [ok |-> FALSE, kind |-> "none", value |-> <<>>]

RECURSIVE map_rows(_, _)
\* lines 81-83: the records of the rows of one decoded sheet, in order
map_rows(rows, mapping) ==
    IF rows = <<>> THEN <<>>
    ELSE map_row(Head(rows), mapping) \o map_rows(Tail(rows), mapping)

\* lines 78-85: the rows one attachment contributes.  An unsupported
\* filename raises in read_pricelist_bytes; a mapping that is not an object
\* raises in map_row at the first row; either is caught and the attachment
\* is left.
parse_attachment(att, m) ==
    IF ~is_supported(att.fn) THEN <<>>
    ELSE IF m.kind # "object" THEN <<>>
    ELSE map_rows(att.rows, m.value)

RECURSIVE parse_attachments(_, _)
parse_attachments(atts, m) ==
    IF atts = <<>> THEN <<>>
    ELSE parse_attachment(Head(atts), m) \o parse_attachments(Tail(atts), m)

\* parse_with_template(msg, attachments, tmpl): the mapping document is
\* decoded before the loop, outside any try
parse_with_template(attachments, mappingDoc) ==
    LET m == json_loads(mappingDoc)
    IN IF ~m.ok THEN [raised |-> "JSONDecodeError", rows |-> <<>>]
       ELSE [raised |-> "none", rows |-> parse_attachments(attachments, m)]

\* the rows of the sheets of the model: two that map to a record and one
\* without a price
SheetRow1 == [username |-> <<"c", "1">>, mccmnc |-> <<"2", "0", "2", "0", "1">>, price |-> <<"1">>]
SheetRow2 == [username |-> <<"c", "1">>, mccmnc |-> <<"2", "0", "2", "1", "0">>, price |-> <<"2">>]
SheetRow3 == [username |-> <<"c", "1">>, mccmnc |-> <<"2", "0", "2", "0", "1">>, price |-> NullText]

Filenames ==
    {<<"p", ".", "c", "s", "v">>, <<"p", ".", "X", "L", "S", "X">>, <<"p", ".", "x", "l", "s">>,
     <<"p", ".", "p", "d", "f">>, <<"c", "s", "v">>}

\* named parts with a payload: the filename and the sheet the payload holds
Attachments == [fn : Filenames, rows : {<<SheetRow1>>, <<SheetRow3, SheetRow2>>}]

MappingDocs == {"{}", "{\"price\": [\"price\", \"rate\"]}", "[]", "{"}

ParseInit ==
    /\ db = EmptyDb
    /\ clock = 0
    /\ LoopInit
    /\ imapEnv = FullEnv
    /\ workers = NoWorkers
    /\ call \in [fn : {"parse_with_template"},
                 attachments : UNION {[1..n -> Attachments] : n \in 0..MaxAttachments},
                 mapping : MappingDocs, done : {FALSE},
                 result : {[raised |-> "none", rows |-> <<>>]}]

\* line 69 of ingest_once: rows = parse_with_template(msg, atts, {...})
CallParseWithTemplate ==
    /\ call.fn = "parse_with_template"
    /\ ~call.done
    /\ call' = [call EXCEPT !.done = TRUE,
                            !.result = parse_with_template(call.attachments, call.mapping)]
    /\ UNCHANGED <<db, clock, loopVars, workers>>

ParseNext == CallParseWithTemplate

ParseSpec == ParseInit /\ [][ParseNext]_vars

(* ------------------------------ C21 ------------------------------------ *)
\* the filename ends in a period and the letters of ext, in either case
HasExtension(fn, ext) ==
    /\ Len(fn) > Len(ext)
    /\ fn[Len(fn) - Len(ext)] = "."
    /\ \A i \in 1..Len(ext) :
           LET ch == fn[Len(fn) - Len(ext) + i]
           IN \/ ch = ext[i]
              \/ <<ch, ext[i]>> \in {<<"C", "c">>, <<"S", "s">>, <<"V", "v">>,
                                     <<"X", "x">>, <<"L", "l">>}

SupportedFormat(fn) ==
    \/ HasExtension(fn, <<"c", "s", "v">>)
    \/ HasExtension(fn, <<"x", "l", "s", "x">>)
    \/ HasExtension(fn, <<"x", "l", "s">>)

RECURSIVE ExpectedRows(_, _)
\* the valid rows of the attachments of a supported format, in order
ExpectedRows(atts, mapping) ==
    IF atts = <<>> THEN <<>>
    ELSE (IF SupportedFormat(Head(atts).fn) THEN map_rows(Head(atts).rows, mapping)
          ELSE <<>>)
         \o ExpectedRows(Tail(atts), mapping)

ParseReturned == call.fn = "parse_with_template" /\ call.done

\* C21: with a mapping that is a JSON object, parse_with_template raises
\* nothing, an attachment whose filename does not end in .csv, .xlsx or .xls
\* (case ignored) contributes no rows, and every other attachment, before or
\* after it, contributes all of its valid rows, in order.
C21_UnsupportedAttachmentSkipped ==
    (ParseReturned /\ json_loads(call.mapping).kind = "object") =>
        /\ call.result.raised = "none"
        /\ call.result.rows =
              ExpectedRows(call.attachments, json_loads(call.mapping).value)

\* a .pdf first, then an upper-case .XLSX that contributed its row
C21_Witness ==
    /\ ParseReturned
    /\ call.mapping = "{}"
    /\ Len(call.attachments) = 2
    /\ call.attachments[1].fn = <<"p", ".", "p", "d", "f">>
    /\ call.attachments[2].fn = <<"p", ".", "X", "L", "S", "X">>
    /\ Len(call.result.rows) = 1

(* ------------------------ whole cycles, repeated ----------------------- *)
\* One cycle as a function of the store, the mailbox and the enabled
\* templates: the loops of ingest_once after a fetch that succeeded.  A
\* message is a row, carried as the one row of a .csv attachment.
AttachmentsOf(msg) == <<[fn |-> <<"p", ".", "c", "s", "v">>, rows |-> <<msg>>]>>

\* lines 71-80: the cycle after one row's upsert_offer call ended as res;
\* the try counts the row and, on an exception, prints and goes on
after_row(st, res) ==
    [st EXCEPT !.db = res.db, !.session = res.session, !.clock = res.clock,
               !.counters = count_row(@, res.status)]

RECURSIVE upsert_rows(_, _, _)
\* lines 70-80: the row loop over the rows one template produced
upsert_rows(st, rows, t) ==
    IF rows = <<>> THEN st
    ELSE upsert_rows(after_row(st, upsert_offer(st.db, st.session, st.clock, Head(rows),
                                               t.supplier_id, t.connection_id)),
                     Tail(rows), t)

\* lines 69-80: the rows parse_with_template returned are upserted; its
\* exception leaves the cycle
after_parse(st, p, t) ==
    IF p.raised # "none" THEN [st EXCEPT !.raised = p.raised]
    ELSE upsert_rows(st, p.rows, t)

\* line 67: the decoded conditions c decide whether the template is parsed
after_conditions(st, msg, t, c) ==
    IF ~c.ok THEN [st EXCEPT !.raised = "JSONDecodeError"]
    ELSE IF c.kind = "number" THEN [st EXCEPT !.raised = "TypeError"]
    ELSE IF c.kind = "object" /\ ~match_template(msg, AttachmentsOf(msg), c.value) THEN st
    ELSE after_parse(st, parse_with_template(AttachmentsOf(msg), t.mapping), t)

\* lines 66-80 for one message and one template.  match_template decodes the
\* conditions document and tests '"from" in cond': a text that is not JSON
\* raises JSONDecodeError, a number raises TypeError, an array holds no
\* category and matches.  Neither call is inside the try of the row loop.
evaluate_template(st, msg, t) ==
    IF st.raised # "none" THEN st
    ELSE after_conditions(st, msg, t, json_loads(t.conditions))

RECURSIVE evaluate_templates(_, _, _)
evaluate_templates(st, msg, tpls) ==
    IF tpls = <<>> THEN st
    ELSE evaluate_templates(evaluate_template(st, msg, Head(tpls)), msg, Tail(tpls))

RECURSIVE evaluate_messages(_, _, _)
evaluate_messages(st, msgs, tpls) ==
    IF msgs = <<>> THEN st
    ELSE evaluate_messages(evaluate_templates(st, Head(msgs), tpls), Tail(msgs), tpls)

\* ingest_once(dryrun=False) with the mailbox settings present and a fetch
\* that succeeds: the store and the clock it leaves, the exception that
\* left it, and the counters of its summary line when it printed one
\* lines 81-86: the summary line is printed when no exception left the loops
cycle_end(st) ==
    [db |-> st.db, clock |-> st.clock, raised |-> st.raised,
     printed |-> IF st.raised = "none"
                 THEN [kind |-> "done", counters |-> st.counters]
                 ELSE NoPrint]

ingest_cycle(d, now, box, tpls) ==
    cycle_end(evaluate_messages([db |-> ensure_schema(d), session |-> "active",
                                 clock |-> now, counters |-> ZeroCounters,
                                 raised |-> "none"],
                                LastN(box, LIMIT), tpls))

\* rows map_row discards: no mccmnc, and a price that is not a number
RowNoMccMnc == [BaseRow EXCEPT !.mccmnc = NullText]
RowBadPrice == [BaseRow EXCEPT !.price = <<"a", "b", "c">>]

CycleMessages == Messages \cup {RowNoMccMnc, RowBadPrice}

\* the documents a template's conditions column may hold
ConditionDocs == {"{}", "[]", "5", "{"}

\* an enabled template with empty conditions and the default mapping
GoodTemplate(supplier_id) ==
    [supplier_id |-> supplier_id, connection_id |-> 2,
     conditions |-> "{}", mapping |-> "{}"]

\* the second template of a list: any conditions and mapping documents
OtherTemplates ==
    [supplier_id : {3}, connection_id : {2}, conditions : ConditionDocs,
     mapping : {"{}", "[]", "{"}]

\* the enabled templates, in query order
TemplateLists ==
    {<<GoodTemplate(1)>>}
        \cup {<<GoodTemplate(1), t>> : t \in OtherTemplates}
        \cup {<<t, GoodTemplate(1)>> : t \in OtherTemplates}

NoCycle == [raised |-> "none", printed |-> NoPrint]

CycleInit ==
    /\ db = EmptyDb
    /\ clock = 0
    /\ LoopInit
    /\ imapEnv = FullEnv
    /\ workers = NoWorkers
    /\ call \in [fn : {"ingest_once"},
                 box : UNION {[1..n -> CycleMessages] : n \in 0..MaxMsgs},
                 templates : TemplateLists, n : {0}, last : {NoCycle}]

\* one iteration of the scheduling loop over the unchanged mailbox
RunCycle ==
    /\ call.fn = "ingest_once"
    /\ call.n < MaxCycles
    /\ \E res \in {ingest_cycle(db, clock, call.box, call.templates)} :
          /\ db' = res.db
          /\ clock' = res.clock
          /\ call' = [call EXCEPT !.n = @ + 1,
                                  !.last = [raised |-> res.raised, printed |-> res.printed]]
    /\ UNCHANGED <<loopVars, workers>>

CycleNext == RunCycle

CycleSpec == CycleInit /\ [][CycleNext]_vars

(* ---------------------- C23, C24, C29 and C30 -------------------------- *)
\* a template whose two documents are JSON objects
HealthyTemplate(t) == t.conditions = "{}" /\ t.mapping = "{}"

AllHealthy == \A i \in DOMAIN call.templates : HealthyTemplate(call.templates[i])

\* map_row makes a record of the message's row: it has a username, an
\* mccmnc and a price that float() accepts
KeptByMapRow(m) ==
    /\ HasValue(m.username)
    /\ HasValue(m.mccmnc)
    /\ float_accepts(Periods(m.price))

\* the messages of a mailbox whose row is kept, in order
KeptOf(box) == SelectSeq(box, KeptByMapRow)

\* a cycle is run on this step
CycleRuns == call.fn = "ingest_once" /\ call'.n = call.n + 1

\* C23: a row map_row discards is silent: the cycle's total is the number of
\* rows map_row kept (once per template), and the cycle leaves the store and
\* reports the counters, errors included, exactly as a cycle over the
\* mailbox without the discarded rows does.
C23_InvalidRowsSilent ==
    [][(CycleRuns /\ AllHealthy) =>
          \A r \in {ingest_cycle(db, clock, KeptOf(call.box), call.templates)} :
             /\ call'.last.printed.kind = "done"
             /\ call'.last.printed.counters.total =
                   Len(KeptOf(call.box)) * Len(call.templates)
             /\ call'.last.printed = r.printed
             /\ db' = r.db]_vars

\* a cycle over a discarded row followed by a kept one counted one row
C23_Witness ==
    /\ call.fn = "ingest_once"
    /\ call.n = 1
    /\ call.templates = <<GoodTemplate(1)>>
    /\ Len(call.box) = 2
    /\ ~KeptByMapRow(call.box[1])
    /\ call.last.printed.counters.total = 1
    /\ call.last.printed.counters.inserted = 1

\* no two rows of the batch target one triple with different price or
\* currency
NoConflict(box) ==
    \A i, j \in DOMAIN box :
        (KeptByMapRow(box[i]) /\ KeptByMapRow(box[j]) /\ box[i].mccmnc = box[j].mccmnc)
            => (box[i].price = box[j].price /\ box[i].currency = box[j].currency)

\* the previous cycle over this mailbox completed without errors
CompletedClean ==
    /\ call.n >= 1
    /\ call.last.printed.kind = "done"
    /\ call.last.printed.counters.errors = 0

\* C24: when a cycle has completed without errors and a second cycle is run
\* on the same mailbox and templates with no other store change, no two rows
\* targeting one triple with different price or currency, the second cycle
\* reports identical = total, inserted = 0, updated = 0 and adds no
\* CurrentOffer, OfferHistory, Country or Network row.
C24_RerunIsIdempotent ==
    [][(CycleRuns /\ AllHealthy /\ CompletedClean /\ NoConflict(call.box)) =>
          /\ call'.last.printed.kind = "done"
          /\ call'.last.printed.counters.identical = call'.last.printed.counters.total
          /\ call'.last.printed.counters.inserted = 0
          /\ call'.last.printed.counters.updated = 0
          /\ Tables(db') = Tables(db)]_vars

\* C29: with an unchanging mailbox and unchanging templates, every cycle
\* after the first completed one reports inserted = 0 and updated = 0 and
\* appends no OfferHistory row, for every mailbox content.
C29_FixedPoint ==
    [][(CycleRuns /\ AllHealthy /\ call.n >= 1 /\ call.last.printed.kind = "done") =>
          /\ call'.last.printed.counters.inserted = 0
          /\ call'.last.printed.counters.updated = 0
          /\ db'.offers_history = db.offers_history]_vars

\* C30: when one enabled template's conditions or mapping text cannot be
\* decoded, a cycle over a mailbox still reaches its summary and has
\* processed, for every other template, the rows of every message.
C30_FaultyTemplateIsolated ==
    (call.fn = "ingest_once" /\ call.n >= 1
        /\ \E i \in DOMAIN call.templates : ~HealthyTemplate(call.templates[i])) =>
        /\ call.last.raised = "none"
        /\ call.last.printed.kind = "done"
        /\ call.last.printed.counters.total >=
              Len(KeptOf(call.box))
                  * Cardinality({i \in DOMAIN call.templates :
                                    HealthyTemplate(call.templates[i])})
====
